---- MODULE Spec2Model ----
(***************************************************************************)
(* PgPolymorphismPlugin: the gather hooks (Discovery, Attribute            *)
(* Inheritance, Reference Synthesis) and the schema hooks (Type            *)
(* Registration, Interface Attachment, Interface Completeness) as a state  *)
(* machine over a small introspected database.                             *)
(*                                                                         *)
(* Strings that the code takes apart (attribute override entries) are      *)
(* sequences of one-character strings; optional values are sequences of    *)
(* length 0 (undefined) or 1.                                              *)
(***************************************************************************)
EXTENDS Integers, Sequences, FiniteSets, TLC

VARIABLES
  pgAttributes,   \* class -> sequence of [attname, attnum] (introspection)
  pgPk,           \* class -> optional primary key: << >> or << attribute list >>
  pgFks,          \* class -> set of foreign keys [confrelid, attrs, fattrs]
  ifaceTag,       \* class -> the 'interface' smart tag
  typeTags,       \* class -> the 'type' smart tags, in order
  unionTags,      \* class -> the 'unionMember' smart tags, in order
  codecFlags,     \* class -> [table, select, anonymous] behaviours of the codec
  implementsTags, \* class -> the 'implements' smart tags, in order
  resOrder,       \* the order in which resources / codecs are visited
  phase,          \* position of the build
  discovered,     \* class -> "pending" | "none" | "attached" | "failed"
  poly,           \* class -> codec.polymorphism
  codecAttrs,     \* class -> set of codec attributes [name, via, identicalVia]
  refs,           \* class -> set of codec refs [name, singular, paths]
  passErr,        \* [inherit, synth] -> optional root at which the pass threw
  refsFirst,      \* refs as the first Reference Synthesis run left them
  synthRuns,      \* number of Reference Synthesis runs so far
  registered,     \* sequence of registered GraphQL types [name, kind, ...]
  unionsToRegister, \* sequence of [name, codecs] (the Map, insertion order)
  recovered,      \* units of Type Registration whose error was recovered
  hookCall,       \* the latest call of a type-construction hook and its result
  options,        \* withGrafastArgs: [explain], the explain option
  nodeEnv,        \* withGrafastArgs: process.env.NODE_ENV
  args,           \* withGrafastArgs: [rootValue], with what is attached to it
  eventListeners, \* the "explainOperation" listeners of the event emitter, in order
  pc,             \* position of the execution
  prepareResult,  \* what grafastPrepare gave: a value, a promise and its state, a throw
  unlistenJob,    \* the reaction that runs unlisten: none, waiting, queued, ran
  emitted         \* the explainOperation events emitted so far, in order

executeVars == << options, nodeEnv, args, eventListeners, pc, prepareResult,
                  unlistenJob, emitted >>

vars == << pgAttributes, pgPk, pgFks, ifaceTag, typeTags, unionTags, codecFlags,
           implementsTags, resOrder, phase, discovered, poly, codecAttrs, refs,
           passErr, refsFirst, synthRuns, registered, unionsToRegister, recovered,
           hookCall, executeVars >>

inputVars == << pgAttributes, pgPk, pgFks, ifaceTag, typeTags, unionTags,
                codecFlags, implementsTags, resOrder >>

----------------------------------------------------------------------------
\* Bounds of the explored inputs.

MaxTypeTags == 2
MaxUnionTags == 2

\* The classes (tables) of the introspected database, all in one namespace.
Classes == {"a", "b", "c"}

Nspname == "public"

\* Optional values.
Undefined == << >>

Some(v) == << v >>

\* A one-letter string.
S(ch) == << ch >>

\* The default of the interface tag's 'type' parameter.
DefaultTypeAttr == << "t", "y", "p", "e" >>

NoPoly == [mode |-> "none"]

----------------------------------------------------------------------------
\* Helpers standing for JavaScript built-ins.

RECURSIVE SplitOn(_, _)
\* String.prototype.split(sep) on a sequence of characters: the parts, in order.
SplitOn(str, sep) ==
  IF \A i \in 1..Len(str) : str[i] # sep
  THEN << str >>
  ELSE LET k == CHOOSE i \in 1..Len(str) :
                  str[i] = sep /\ \A j \in 1..(i-1) : str[j] # sep
       IN << SubSeq(str, 1, k - 1) >> \o SplitOn(SubSeq(str, k + 1, Len(str)), sep)

EndsWith(str, ch) == Len(str) > 0 /\ str[Len(str)] = ch

SeqToSet(s) == { s[i] : i \in 1..Len(s) }

\* arraysMatch of grafast: same length and equal element by element.
arraysMatch(a1, a2) ==
  /\ Len(a1) = Len(a2)
  /\ \A i \in 1..Len(a1) : a1[i] = a2[i]

\* Object key insertion: a key that exists keeps its position, its value replaced.
ObjPut(obj, entry) ==
  IF \E i \in 1..Len(obj) : obj[i].value = entry.value
  THEN [i \in 1..Len(obj) |-> IF obj[i].value = entry.value THEN entry ELSE obj[i]]
  ELSE Append(obj, entry)

----------------------------------------------------------------------------
\* Collaborators: introspection and inflection.

\* parseDatabaseIdentifier(references, 2, namespace): a bare table name takes the
\* class's own namespace.
parseDatabaseIdentifier(ref, ns) ==
  IF Len(ref) = 1 THEN << ns, ref[1] >> ELSE << ref[1], ref[2] >>

\* pgIntrospection.getClassByName: the class, or nothing.
getClassByName(ns, name) ==
  IF ns = Nspname /\ name \in Classes THEN Some(name) ELSE Undefined

\* pgClass.getAttribute({ name }): looks among all attributes of the class.
getAttribute(c, name) ==
  LET hits == SelectSeq(pgAttributes[c], LAMBDA a : a.attname = name)
  IN IF Len(hits) = 0 THEN Undefined ELSE Some(hits[1])

\* inflection.tableType(codec).
tableType(c) ==
  CASE c = "a" -> S("A")
    [] c = "b" -> S("B")
    [] c = "c" -> S("C")
    [] OTHER -> S("X")

\* inflection.resourceRelationName: a pure function of its arguments.
resourceRelationName(isReferencee, localClass, localAttrs, foreignClass, foreignAttrs) ==
  << isReferencee, localClass, localAttrs, foreignClass, foreignAttrs >>

----------------------------------------------------------------------------
\* Discovery: pgCodecs_recordType_spec.

parseAttribute(colSpec) ==
  LET bang == EndsWith(colSpec, "!")
      spec == IF bang THEN SubSeq(colSpec, 1, Len(colSpec) - 1) ELSE colSpec
      parts == SplitOn(spec, ">")
  IN [ attribute |-> parts[1],
       isNotNull |-> bang,
       rename |-> IF Len(parts) >= 2 THEN Some(parts[2]) ELSE Undefined ]

\* rawTypeTags -> typeTags: an absent tag becomes the one string "undefined",
\* which parses to a tag with no parameters.
UndefinedTag ==
  [value |-> "undefined", name |-> << >>, attributes |-> << >>, references |-> << >>]

typeTagsOf(c) == IF typeTags[c] = << >> THEN << UndefinedTag >> ELSE typeTags[c]

\* attributeNames: the names of the attributes with attnum >= 1, in order.
attributeNames(c) ==
  LET user == SelectSeq(pgAttributes[c], LAMBDA a : a.attnum >= 1)
  IN [i \in 1..Len(user) |-> user[i].attname]

Thrown == [ok |-> FALSE]

RECURSIVE singleTypesRawEntries(_, _, _)
\* The loop with specificAttributes collecting the override entries as written
\* ("salary!") instead of the attribute names parsed from them.
singleTypesRawEntries(tags, types, specific) ==
  IF tags = << >> THEN [ok |-> TRUE, types |-> types, specific |-> specific]
  ELSE LET tag == Head(tags)
           overrides == [i \in 1..Len(tag.attributes) |->
                           parseAttribute(tag.attributes[i])]
           entry == [value |-> tag.value, name |-> tag.name,
                     attributes |-> overrides]
       IN IF tag.name = << >> THEN Thrown
          ELSE singleTypesRawEntries(Tail(tags), ObjPut(types, entry),
                                     specific \cup SeqToSet(tag.attributes))

RECURSIVE singleTypes(_, _, _)
\* The loop over the type tags in single mode: the types object and the set
\* specificAttributes, or a throw.
singleTypes(tags, types, specific) ==
  IF tags = << >> THEN [ok |-> TRUE, types |-> types, specific |-> specific]
  ELSE LET tag == Head(tags)
           overrides == [i \in 1..Len(tag.attributes) |->
                           parseAttribute(tag.attributes[i])]
           entry == [value |-> tag.value, name |-> tag.name,
                     attributes |-> overrides]
       IN IF tag.name = << >> THEN Thrown
          ELSE singleTypes(Tail(tags), ObjPut(types, entry),
                           specific \cup { overrides[i].attribute :
                                             i \in 1..Len(overrides) })

\* Single-mode Discovery without the check that the discriminator exists.
discoverSingleUnchecked(c) ==
  LET type == IF ifaceTag[c].type = Undefined THEN DefaultTypeAttr
              ELSE ifaceTag[c].type[1]
      loop == singleTypes(typeTagsOf(c), << >>, {})
  IN IF ~loop.ok THEN Thrown
     ELSE [ok |-> TRUE,
           polymorphism |->
             [mode |-> "single",
              commonAttributes |->
                SelectSeq(attributeNames(c), LAMBDA n : n \notin loop.specific),
              typeAttributes |-> << type >>,
              types |-> loop.types]]

discoverSingle(c) ==
  LET type == IF ifaceTag[c].type = Undefined THEN DefaultTypeAttr
              ELSE ifaceTag[c].type[1]
      loop == singleTypes(typeTagsOf(c), << >>, {})
  IN IF getAttribute(c, type) = Undefined THEN Thrown
     ELSE IF ~loop.ok THEN Thrown
     ELSE [ok |-> TRUE,
           polymorphism |->
             [mode |-> "single",
              commonAttributes |->
                SelectSeq(attributeNames(c), LAMBDA n : n \notin loop.specific),
              typeAttributes |-> << type >>,
              types |-> loop.types]]

\* constraints.find(c => c.contype === "p")
primaryKey(c) == pgPk[c]

\* The constraint search comparing the attribute lists as sets.
discoveryConstraintsUnordered(root, referenced, pk, remotePk) ==
  { k \in pgFks[referenced] :
      /\ k.confrelid = root
      /\ SeqToSet(k.attrs) = SeqToSet(remotePk)
      /\ SeqToSet(k.fattrs) = SeqToSet(pk) }

\* The foreign key of the referenced class that Discovery looks for.
discoveryConstraints(root, referenced, pk, remotePk) ==
  { k \in pgFks[referenced] :
      /\ k.confrelid = root
      /\ arraysMatch(k.attrs, remotePk)
      /\ arraysMatch(k.fattrs, pk) }

\* One type tag of a relational root: the entry stored in types, or a throw.
relationalType(c, tag) ==
  IF tag.references = << >> THEN Thrown
  ELSE LET id == parseDatabaseIdentifier(tag.references, Nspname)
           referencedClass == getClassByName(id[1], id[2])
       IN IF referencedClass = Undefined THEN Thrown
          ELSE LET rc == referencedClass[1]
                   pk == primaryKey(c)
                   remotePk == primaryKey(rc)
               IN IF pk = Undefined \/ remotePk = Undefined THEN Thrown
                  ELSE IF discoveryConstraints(c, rc, pk[1], remotePk[1]) = {}
                  THEN Thrown
                  ELSE [ok |-> TRUE,
                        entry |->
                          [value |-> tag.value,
                           name |-> tableType(rc),
                           references |-> tag.references,
                           relationName |->
                             resourceRelationName(TRUE, c, pk[1], rc, remotePk[1])]]

RECURSIVE relationalTypes(_, _, _)
relationalTypes(c, tags, types) ==
  IF tags = << >> THEN [ok |-> TRUE, types |-> types]
  ELSE LET one == relationalType(c, Head(tags))
       IN IF ~one.ok THEN Thrown
          ELSE relationalTypes(c, Tail(tags), ObjPut(types, one.entry))

discoverRelational(c) ==
  LET type == IF ifaceTag[c].type = Undefined THEN DefaultTypeAttr
              ELSE ifaceTag[c].type[1]
      loop == relationalTypes(c, typeTagsOf(c), << >>)
  IN IF getAttribute(c, type) = Undefined THEN Thrown
     ELSE IF ~loop.ok THEN Thrown
     ELSE [ok |-> TRUE,
           polymorphism |->
             [mode |-> "relational",
              typeAttributes |-> << type >>,
              types |-> loop.types]]

\* The whole hook for one class: "none" when there is no interface tag, else the
\* polymorphism to attach, or a throw.
recordTypeSpec(c) ==
  IF ~ifaceTag[c].present THEN [ok |-> TRUE, attach |-> FALSE]
  ELSE IF ~ifaceTag[c].isString THEN Thrown
  ELSE CASE ifaceTag[c].mode = "single" ->
              LET r == discoverSingle(c)
              IN IF r.ok THEN [ok |-> TRUE, attach |-> TRUE,
                               polymorphism |-> r.polymorphism]
                 ELSE Thrown
         [] ifaceTag[c].mode = "relational" ->
              LET r == discoverRelational(c)
              IN IF r.ok THEN [ok |-> TRUE, attach |-> TRUE,
                               polymorphism |-> r.polymorphism]
                 ELSE Thrown
         [] ifaceTag[c].mode = "union" ->
              [ok |-> TRUE, attach |-> TRUE, polymorphism |-> [mode |-> "union"]]
         [] OTHER -> Thrown

----------------------------------------------------------------------------
\* Attribute Inheritance: pgRegistry_PgRegistryBuilder_finalize.

\* The constraint search with the two primary keys taken in each other's place.
laterConstraintsSwapped(root, related, pk, remotePk) ==
  { k \in pgFks[related] :
      /\ k.confrelid = root
      /\ arraysMatch(k.fattrs, pk)
      /\ arraysMatch(k.attrs, remotePk) }

\* The foreign key of the related class that the later passes look for.
laterConstraints(root, related, pk, remotePk) ==
  { k \in pgFks[related] :
      /\ k.confrelid = root
      /\ arraysMatch(k.fattrs, remotePk)
      /\ arraysMatch(k.attrs, pk) }

\* The checks both later passes make for one type spec of a relational root:
\* the related class and the shared relation name, or a throw.
sharedRelation(root, spec) ==
  LET id == parseDatabaseIdentifier(spec.references, Nspname)
      pgRelatedClass == getClassByName(id[1], id[2])
  IN IF pgRelatedClass = Undefined THEN Thrown
     ELSE LET rc == pgRelatedClass[1]
              pk == primaryKey(rc)
              remotePk == primaryKey(root)
          IN IF pk = Undefined THEN Thrown
             ELSE IF remotePk = Undefined THEN Thrown
             ELSE IF laterConstraints(root, rc, pk[1], remotePk[1]) = {} THEN Thrown
             ELSE [ok |-> TRUE, related |-> rc,
                   sharedRelationName |->
                     resourceRelationName(FALSE, rc, pk[1], root, remotePk[1])]

\* The loop over the root's attributes: mark or synthesise each on the other codec.
copyAttributes(rootAttrs, otherAttrs, sharedRelationName) ==
  LET marked == { IF \E r \in rootAttrs : r.name = o.name
                  THEN [o EXCEPT !.identicalVia = Some(sharedRelationName)]
                  ELSE o : o \in otherAttrs }
      added == { [name |-> r.name, via |-> Some(sharedRelationName),
                  identicalVia |-> Undefined] :
                 r \in { q \in rootAttrs : \A o \in otherAttrs : o.name # q.name } }
  IN marked \cup added

RECURSIVE inheritTypes(_, _, _)
\* The loop over poly.types of one relational root.
inheritTypes(root, specs, attrs) ==
  IF specs = << >> THEN [ok |-> TRUE, attrs |-> attrs]
  ELSE LET sh == sharedRelation(root, Head(specs))
       IN IF ~sh.ok THEN [ok |-> FALSE, attrs |-> attrs]
          ELSE inheritTypes(root, Tail(specs),
                 [attrs EXCEPT ![sh.related] =
                    copyAttributes(attrs[root], attrs[sh.related],
                                   sh.sharedRelationName)])

RECURSIVE inheritPass(_, _)
\* The loop over the resources, in order; a throw ends the whole hook.
inheritPass(order, attrs) ==
  IF order = << >> THEN [err |-> Undefined, attrs |-> attrs]
  ELSE LET r == Head(order)
       IN IF poly[r].mode # "relational" THEN inheritPass(Tail(order), attrs)
          ELSE LET one == inheritTypes(r, poly[r].types, attrs)
               IN IF ~one.ok THEN [err |-> Some(r), attrs |-> one.attrs]
                  ELSE inheritPass(Tail(order), one.attrs)

----------------------------------------------------------------------------
\* Reference Synthesis: pgRegistry_PgRegistry.

\* registry.pgRelations[codec]: one forward relation per foreign key of the class,
\* one backward relation per foreign key that points at it.
pgRelations(c) ==
  { [name |-> resourceRelationName(FALSE, c, k.attrs, k.confrelid, k.fattrs),
     isUnique |-> TRUE, isReferencee |-> FALSE, remote |-> k.confrelid] :
    k \in pgFks[c] }
  \cup
  UNION { { [name |-> resourceRelationName(TRUE, c, k.fattrs, s, k.attrs),
             isUnique |-> (pgPk[s] = Some(k.attrs)),
             isReferencee |-> TRUE, remote |-> s] :
            k \in { q \in pgFks[s] : q.confrelid = c } } : s \in Classes }

\* The ref built for one relation of the root.
makeRef(root, rel, sharedRelationName) ==
  [name |-> rel.name,
   definition |-> [singular |-> rel.isUnique,
                   fieldNames |-> << rel.isReferencee, root, rel.name >>],
   paths |-> << << sharedRelationName, rel.name >> >>]

\* Refs that gain a path when a ref of the name exists, instead of being replaced.
putRefsAppending(root, otherRefs, sharedRelationName) ==
  LET made == { makeRef(root, rel, sharedRelationName) : rel \in pgRelations(root) }
  IN { IF \E m \in made : m.name = o.name
       THEN [o EXCEPT !.paths = @ \o (CHOOSE m \in made : m.name = o.name).paths]
       ELSE o : o \in otherRefs }
     \cup { m \in made : \A o \in otherRefs : o.name # m.name }

\* codec.refs[relationName] = ref, for every relation of the root.
putRefs(root, otherRefs, sharedRelationName) ==
  LET made == { makeRef(root, rel, sharedRelationName) : rel \in pgRelations(root) }
  IN { o \in otherRefs : \A m \in made : m.name # o.name } \cup made

RECURSIVE synthTypes(_, _, _)
synthTypes(root, specs, rf) ==
  IF specs = << >> THEN [ok |-> TRUE, refs |-> rf]
  ELSE LET sh == sharedRelation(root, Head(specs))
       IN IF ~sh.ok THEN [ok |-> FALSE, refs |-> rf]
          ELSE synthTypes(root, Tail(specs),
                 [rf EXCEPT ![sh.related] =
                    putRefs(root, rf[sh.related], sh.sharedRelationName)])

RECURSIVE synthPass(_, _)
synthPass(order, rf) ==
  IF order = << >> THEN [err |-> Undefined, refs |-> rf]
  ELSE LET r == Head(order)
       IN IF poly[r].mode # "relational" THEN synthPass(Tail(order), rf)
          ELSE LET one == synthTypes(r, poly[r].types, rf)
               IN IF ~one.ok THEN [err |-> Some(r), refs |-> one.refs]
                  ELSE synthPass(Tail(order), one.refs)

----------------------------------------------------------------------------
\* Type Registration: the init hook of the schema phase.

TypeName(suffix, base) == << suffix, base >>

\* build.register*: a name can be registered once; a second registration throws.
registerType(reg, t) ==
  IF \E r \in reg : r.name = t.name THEN [ok |-> FALSE, reg |-> reg]
  ELSE [ok |-> TRUE, reg |-> reg \cup {t}]

RECURSIVE registerAll(_, _)
\* A run of registrations inside one function body: the first throw ends it.
registerAll(reg, items) ==
  IF items = << >> THEN [ok |-> TRUE, reg |-> reg]
  ELSE LET one == registerType(reg, Head(items))
       IN IF ~one.ok THEN one ELSE registerAll(one.reg, Tail(items))

\* build.registerCursorConnection: the connection and the edge type of a type.
cursorConnection(c, base) ==
  << [name |-> TypeName("Edge", base), kind |-> "object", pgCodec |-> c,
      scope |-> [isPgConnectionRelated |-> TRUE]],
     [name |-> TypeName("Connection", base), kind |-> "object", pgCodec |-> c,
      scope |-> [isPgConnectionRelated |-> TRUE]] >>

\* The object types that ordinary table-type registration has made before this
\* hook runs: one per non-polymorphic, non-anonymous table codec.
tableTypes ==
  UNION { { [name |-> TypeName("", tableType(c)), kind |-> "object", pgCodec |-> c,
             scope |-> [isPgClassType |-> TRUE]] } \cup SeqToSet(cursorConnection(c, tableType(c))) :
          c \in { d \in Classes : /\ poly[d].mode = "none"
                                  /\ codecFlags[d].table
                                  /\ ~codecFlags[d].anonymous } }

interfaceType(c) ==
  [name |-> TypeName("", tableType(c)), kind |-> "interface", pgCodec |-> c,
   scope |-> [isPgPolymorphicTableType |-> TRUE, pgPolymorphism |-> poly[c]]]

singleTableType(c, spec) ==
  [name |-> TypeName("", spec.name), kind |-> "object", pgCodec |-> c,
   scope |-> [isPgClassType |-> TRUE, pgPolymorphism |-> poly[c],
              pgPolymorphicSingleTableType |->
                [typeIdentifier |-> spec.value, name |-> spec.name,
                 attributes |-> spec.attributes]]]

RECURSIVE concreteTypes(_, _)
\* The registrations of the loop over polymorphism.types (single mode only).
concreteTypes(c, specs) ==
  IF specs = << >> THEN << >>
  ELSE (IF poly[c].mode = "single"
        THEN << singleTableType(c, Head(specs)) >>
               \o cursorConnection(c, Head(specs).name)
        ELSE << >>) \o concreteTypes(c, Tail(specs))

\* The function body without the test of the "select" behaviour.
interfaceRegistrationsUnselectable(c) ==
  IF poly[c].mode = "none" THEN << >>
  ELSE IF ~codecFlags[c].table \/ codecFlags[c].anonymous THEN << >>
  ELSE << interfaceType(c) >> \o cursorConnection(c, tableType(c))
         \o concreteTypes(c, IF poly[c].mode = "union" THEN << >> ELSE poly[c].types)

\* "Detect interface": what the function body registers, in order.
interfaceRegistrations(c) ==
  IF poly[c].mode = "none" THEN << >>
  ELSE IF ~codecFlags[c].table \/ codecFlags[c].anonymous THEN << >>
  ELSE IF ~codecFlags[c].select THEN << >>
  ELSE IF poly[c].mode \in {"single", "relational"}
       THEN << interfaceType(c) >> \o cursorConnection(c, tableType(c))
              \o concreteTypes(c, poly[c].types)
  ELSE IF poly[c].mode = "union"
       THEN << interfaceType(c) >> \o cursorConnection(c, tableType(c))
  ELSE << >>

RECURSIVE Trim(_)
\* String.prototype.trim on a sequence of characters.
Trim(str) ==
  IF Len(str) > 0 /\ str[1] = " " THEN Trim(Tail(str))
  ELSE IF Len(str) > 0 /\ str[Len(str)] = " " THEN Trim(SubSeq(str, 1, Len(str) - 1))
  ELSE str

\* unionsToRegister.get / set / list.push for one membership.
addMembership(unions, unionName, c) ==
  IF \E i \in 1..Len(unions) : unions[i].name = unionName
  THEN [i \in 1..Len(unions) |->
          IF unions[i].name = unionName
          THEN [unions[i] EXCEPT !.codecs = Append(@, c)]
          ELSE unions[i]]
  ELSE Append(unions, [name |-> unionName, codecs |-> << c >>])

RECURSIVE unionMemberships(_, _, _)
\* "Detect union membership": the loop over the unionMember tags of one codec.
unionMemberships(c, tags, unions) ==
  IF tags = << >> THEN unions
  ELSE unionMemberships(c, Tail(tags), addMembership(unions, Trim(Head(tags)), c))

\* build.recoverable(null, fn): an error of fn is recorded and the build goes on.
recoverable(st, unit, outcome) ==
  IF outcome.ok THEN [st EXCEPT !.reg = outcome.reg]
  ELSE [st EXCEPT !.reg = outcome.reg, !.recovered = @ \cup {unit}]

\* The loop body with both scans in one recoverable block: a failure of the
\* interface registrations skips the union memberships of the codec.
scanCodecOneBlock(c, st) ==
  LET outcome == registerAll(st.reg, interfaceRegistrations(c))
      afterInterface == recoverable(st, << "interface", c >>, outcome)
  IN IF outcome.ok
     THEN [afterInterface EXCEPT !.unions = unionMemberships(c, unionTags[c], @)]
     ELSE afterInterface

\* The body of the loop over the codecs: the two recoverable blocks.
scanCodec(c, st) ==
  LET afterInterface ==
        recoverable(st, << "interface", c >>,
                    registerAll(st.reg, interfaceRegistrations(c)))
  IN [afterInterface EXCEPT !.unions = unionMemberships(c, unionTags[c], @)]

RECURSIVE scanCodecs(_, _)
scanCodecs(order, st) ==
  IF order = << >> THEN st
  ELSE scanCodecs(Tail(order), scanCodec(Head(order), st))

unionType(u) ==
  [name |-> TypeName("", u.name), kind |-> "union", pgCodec |-> "",
   scope |-> [isPgUnionMemberUnion |-> TRUE, codecs |-> u.codecs]]

RECURSIVE registerUnions(_, _)
\* The loop over unionsToRegister: each union in its own recoverable block.
registerUnions(unions, st) ==
  IF unions = << >> THEN st
  ELSE registerUnions(Tail(unions),
         recoverable(st, << "union", Head(unions).name >>,
                     registerAll(st.reg, << unionType(Head(unions)) >>)))

initHook(order) ==
  LET scanned == scanCodecs(order, [reg |-> tableTypes, unions |-> << >>,
                                    recovered |-> {}])
  IN registerUnions(scanned.unions, scanned)

----------------------------------------------------------------------------
\* Type construction: the hooks called while the schema is built from the
\* registry that Type Registration filled.

\* build.getTypeByName: the registered type of the name, or undefined.
getTypeByName(name) ==
  LET hits == { t \in registered : t.name = TypeName("", name) }
  IN IF hits = {} THEN Undefined ELSE Some(CHOOSE t \in hits : TRUE)

isNotNullish(x) == x # Undefined

\* The types thunk of a union that keeps the names that resolve to nothing.
unionMemberTypesUnfiltered(codecs) ==
  [i \in 1..Len(codecs) |-> getTypeByName(tableType(codecs[i]))]

\* The types thunk of a registered union: the members' table types that exist.
unionMemberTypes(codecs) ==
  SelectSeq([i \in 1..Len(codecs) |-> getTypeByName(tableType(codecs[i]))],
            isNotNullish)

RECURSIVE implementsInterfaces(_, _)
\* The loop over the names of the implements tag.
implementsInterfaces(interfaceNames, interfaces) ==
  IF interfaceNames = << >> THEN interfaces
  ELSE LET named == getTypeByName(Head(interfaceNames))
       IN IF named = Undefined
          THEN implementsInterfaces(Tail(interfaceNames), interfaces)
          ELSE IF named[1].kind # "interface"
          THEN implementsInterfaces(Tail(interfaceNames), interfaces)
          ELSE implementsInterfaces(Tail(interfaceNames),
                                    Append(interfaces, named))

RECURSIVE relationalInterfaces(_, _, _)
\* The loop over the codecs: the interface of every relational root that names
\* this type among its types, as getTypeByName returns it.
relationalInterfaces(order, selfName, interfaces) ==
  IF order = << >> THEN interfaces
  ELSE LET codec == Head(order)
       IN IF poly[codec].mode # "relational"
          THEN relationalInterfaces(Tail(order), selfName, interfaces)
          ELSE LET typeNames == { TypeName("", poly[codec].types[i].name) :
                                   i \in 1..Len(poly[codec].types) }
               IN IF selfName \in typeNames
                  THEN relationalInterfaces(Tail(order), selfName,
                         Append(interfaces, getTypeByName(tableType(codec))))
                  ELSE relationalInterfaces(Tail(order), selfName, interfaces)

\* GraphQLObjectType_interfaces for the object type self.
objectTypeInterfaces(interfaces, self) ==
  LET rawImplements == implementsTags[self.pgCodec]
      isPgClassType == "isPgClassType" \in DOMAIN self.scope
      afterImplements ==
        IF rawImplements # << >> /\ isPgClassType
        THEN implementsInterfaces(rawImplements, interfaces)
        ELSE interfaces
  IN relationalInterfaces(resOrder, self.name, afterImplements)

\* The loop forcing only the first declared type of the interface.
forceTypesFirst(specs, types) ==
  IF specs = << >> THEN types
  ELSE Append(types, getTypeByName(Head(specs).name))

RECURSIVE forceTypes(_, _)
\* The loop over polymorphism.types of one interface.
forceTypes(specs, types) ==
  IF specs = << >> THEN types
  ELSE forceTypes(Tail(specs), Append(types, getTypeByName(Head(specs).name)))

RECURSIVE schemaTypesOver(_, _)
\* The loop over all types: the interfaces of the registry are those of the
\* roots, registered in the order in which the codecs were visited.
schemaTypesOver(order, types) ==
  IF order = << >> THEN types
  ELSE LET found == { t \in registered :
                        t.kind = "interface" /\ t.pgCodec = Head(order) }
       IN IF found = {} THEN schemaTypesOver(Tail(order), types)
          ELSE LET polymorphism == (CHOOSE t \in found : TRUE).scope.pgPolymorphism
               IN IF polymorphism.mode \in {"relational", "single"}
                  THEN schemaTypesOver(Tail(order),
                                       forceTypes(polymorphism.types, types))
                  ELSE schemaTypesOver(Tail(order), types)

\* GraphQLSchema_types.
schemaTypes(types) == schemaTypesOver(resOrder, types)

----------------------------------------------------------------------------
\* The inferred behaviour of a relation: entityBehavior.pgCodecRelation.

\* The relations of the registry as the callback receives them: those of
\* pgRelations, with the codec they belong to and the attributes on both sides.
relationEntities(c) ==
  { [name |-> resourceRelationName(FALSE, c, k.attrs, k.confrelid, k.fattrs),
     localCodec |-> c, remote |-> k.confrelid,
     localAttributes |-> k.attrs, remoteAttributes |-> k.fattrs,
     isUnique |-> TRUE, isReferencee |-> FALSE] : k \in pgFks[c] }
  \cup
  UNION { { [name |-> resourceRelationName(TRUE, c, k.fattrs, s, k.attrs),
             localCodec |-> c, remote |-> s,
             localAttributes |-> k.fattrs, remoteAttributes |-> k.attrs,
             isUnique |-> (pgPk[s] = Some(k.attrs)), isReferencee |-> TRUE] :
            k \in { q \in pgFks[s] : q.confrelid = c } } : s \in Classes }

\* pgRelations[codec.name]?.[relationName]: the relation, or undefined.
relationNamed(c, relationName) ==
  LET hits == { e \in relationEntities(c) : e.name = relationName }
  IN IF hits = {} THEN Undefined ELSE Some(CHOOSE e \in hits : TRUE)

SuppressedBehavior == "-connection -list -single"

\* The second test of the callback: a relation of a relational root to one of
\* its declared subtypes.
rootToSubtypeBehavior(behavior, entity) ==
  IF entity.isReferencee /\ poly[entity.localCodec].mode = "relational"
  THEN LET types == poly[entity.localCodec].types
           relations == { relationNamed(entity.localCodec, types[i].relationName) :
                          i \in 1..Len(types) }
       IN IF Some(entity) \in relations
          THEN [ok |-> TRUE, behavior |-> << behavior, SuppressedBehavior >>]
          ELSE [ok |-> TRUE, behavior |-> << behavior >>]
  ELSE [ok |-> TRUE, behavior |-> << behavior >>]

\* The callback: the behaviour it returns, or a throw (reading a property of
\* undefined).
relationBehavior(behavior, entity) ==
  IF /\ entity.isUnique
     /\ ~entity.isReferencee
     /\ poly[entity.remote].mode = "relational"
  THEN LET localTypeName == tableType(entity.localCodec)
           found == SelectSeq(poly[entity.remote].types,
                              LAMBDA val : val.name = localTypeName)
       IN IF found = << >> THEN rootToSubtypeBehavior(behavior, entity)
          ELSE LET relation == relationNamed(entity.remote, found[1].relationName)
               IN IF relation = Undefined THEN Thrown
                  ELSE IF arraysMatch(relation[1].remoteAttributes,
                                      entity.localAttributes)
                  THEN [ok |-> TRUE, behavior |-> << behavior, SuppressedBehavior >>]
                  ELSE rootToSubtypeBehavior(behavior, entity)
  ELSE rootToSubtypeBehavior(behavior, entity)

----------------------------------------------------------------------------
\* The explored inputs: families of introspected databases.

Att(name, num) == [attname |-> name, attnum |-> num]

NoTag == [present |-> FALSE, isString |-> TRUE, mode |-> "", type |-> Undefined]

IfaceTag(mode, type) ==
  [present |-> TRUE, isString |-> TRUE, mode |-> mode, type |-> type]

SingleTag(value, name, attributes) ==
  [value |-> value, name |-> name, attributes |-> attributes, references |-> << >>]

RelTag(value, references) ==
  [value |-> value, name |-> << >>, attributes |-> << >>, references |-> references]

AllFlags == [table |-> TRUE, select |-> TRUE, anonymous |-> FALSE]

\* Sequences over a set, up to a length.
SeqsUpTo(set, n) == UNION { [1..k -> set] : k \in 0..n }

Orders == { o \in [1..Cardinality(Classes) -> Classes] :
              \A i, j \in 1..Cardinality(Classes) : i # j => o[i] # o[j] }

\* No type-construction hook has been called yet.
NoCall == [hook |-> "none", self |-> << >>, incoming |-> << >>, result |-> << >>]

\* What the build starts from, given the inputs.
\* A root value: null, a non-object, or an object with its own enumerable keys,
\* its extensions and whether an event emitter is attached.
RootValue(kind, keys) ==
  [kind |-> kind, keys |-> keys, extensions |-> Undefined, eventEmitter |-> FALSE]

\* No execution is under way.
ExecuteIdle ==
  /\ options = [explain |-> Undefined]
  /\ nodeEnv = "production"
  /\ args = [rootValue |-> RootValue("null", 0)]
  /\ eventListeners = << >>
  /\ pc = "idle"
  /\ prepareResult = "none"
  /\ unlistenJob = "none"
  /\ emitted = << >>

BuildStart ==
  /\ phase = "discovery"
  /\ discovered = [c \in Classes |-> "pending"]
  /\ codecAttrs = [c \in Classes |->
                     { [name |-> n, via |-> Undefined, identicalVia |-> Undefined] :
                       n \in SeqToSet(attributeNames(c)) }]
  /\ refs = [c \in Classes |-> {}]
  /\ passErr = [inherit |-> Undefined, synth |-> Undefined]
  /\ refsFirst = [c \in Classes |-> {}]
  /\ synthRuns = 0
  /\ registered = {}
  /\ unionsToRegister = << >>
  /\ recovered = {}
  /\ hookCall = NoCall

Start == ExecuteIdle /\ BuildStart

SingleAttributeLists ==
  { << Att(S("k"), 1), Att(S("x"), 2), Att(S("y"), 3) >>,
    << Att(S("k"), 1), Att(S("x"), 2) >>,
    << Att(DefaultTypeAttr, 1), Att(S("x"), 2), Att(S("y"), 3) >>,
    << Att(S("k"), -1), Att(S("x"), 1), Att(S("y"), 2) >>,
    << Att(S("x"), 1) >> }

SingleTags ==
  { SingleTag("u", S("T"), << S("x") >>),
    SingleTag("u", S("T"), << << "y", "!" >> >>),
    SingleTag("v", S("U"), << << "y", "!" >> >>),
    SingleTag("v", S("U"), << S("x"), S("y") >>),
    SingleTag("v", S("T"), << << "x", ">", "r" >> >>),
    SingleTag("v", S("U"), << << "y", "!", ">", "r" >> >>),
    SingleTag("u", S("B"), << S("q") >>),
    SingleTag("v", << >>, << S("x") >>),
    SingleTag("u", S("T"), << >>) }

\* A value for class "a", another for the rest.
OnA(x, rest) == [c \in Classes |-> IF c = "a" THEN x ELSE rest]

\* A root "a" with an interface tag of any mode and single-mode type tags, beside
\* two plain tables.
InitSingle ==
  /\ \E l \in SingleAttributeLists : pgAttributes = OnA(l, << Att(S("x"), 1) >>)
  /\ pgPk = [c \in Classes |-> Undefined]
  /\ pgFks = [c \in Classes |-> {}]
  /\ \E t \in { IfaceTag("single", Undefined), IfaceTag("single", Some(S("k"))),
                [IfaceTag("single", Undefined) EXCEPT !.isString = FALSE],
                IfaceTag("union", Undefined), IfaceTag("", Undefined),
                IfaceTag("multiple", Some(S("k"))) } :
       ifaceTag = OnA(t, NoTag)
  /\ \E tags \in SeqsUpTo(SingleTags, MaxTypeTags) : typeTags = OnA(tags, << >>)
  /\ unionTags = [c \in Classes |-> << >>]
  /\ codecFlags = [c \in Classes |-> AllFlags]
  /\ implementsTags = [c \in Classes |-> << >>]
  /\ resOrder = << "a", "b", "c" >>
  /\ poly = [c \in Classes |-> NoPoly]
  /\ Start

KeyLists(x, y) == { << x >>, << x, y >>, << y, x >> }

IJ == << Att(S("i"), 1), Att(S("j"), 2) >>

\* A relational root "a" with one declared subtype, over every shape of the
\* primary keys and of the foreign key of "b".
InitKeys ==
  /\ \E l \in { IJ, Append(IJ, Att(DefaultTypeAttr, 3)) } : pgAttributes = OnA(l, IJ)
  /\ \E ka, kb \in {Undefined} \cup { Some(k) : k \in KeyLists(S("i"), S("j")) } :
       pgPk = [c \in Classes |-> IF c = "a" THEN ka
                                 ELSE IF c = "b" THEN kb ELSE Some(<< S("i") >>)]
  /\ \E fk \in {{}} \cup
               { { [confrelid |-> r, attrs |-> k, fattrs |-> f] } :
                 r \in {"a", "c"}, k \in KeyLists(S("i"), S("j")),
                 f \in KeyLists(S("i"), S("j")) } :
       pgFks = [c \in Classes |-> IF c = "b" THEN fk ELSE {}]
  /\ ifaceTag = OnA(IfaceTag("relational", Undefined), NoTag)
  /\ \E tags \in { << >>, << RelTag("u", << >>) >>,
                   << RelTag("u", << "b" >>) >>,
                   << RelTag("u", << "public", "b" >>) >>,
                   << RelTag("u", << "other", "b" >>) >>,
                   << RelTag("u", << "zz" >>) >> } :
       typeTags = OnA(tags, << >>)
  /\ unionTags = [c \in Classes |-> << >>]
  /\ codecFlags = [c \in Classes |-> AllFlags]
  /\ implementsTags = [c \in Classes |-> << >>]
  /\ resOrder = << "a", "b", "c" >>
  /\ poly = [c \in Classes |-> NoPoly]
  /\ Start

ITX(last) == << Att(S("i"), 1), Att(DefaultTypeAttr, 2), Att(S(last), 3) >>

Fk(to) == [confrelid |-> to, attrs |-> << S("i") >>, fattrs |-> << S("i") >>]

\* The type tags that declare the classes of a list as relational subtypes.
DeclTags(decl) ==
  [k \in 1..Len(decl) |-> RelTag(IF k = 1 THEN "u" ELSE "v", << decl[k] >>)]

\* A relational polymorphism that the codec spec already carries when the hook
\* receives it (the hook leaves spec.polymorphism alone without an interface tag).
PresetPoly(root, decl) ==
  [mode |-> "relational",
   typeAttributes |-> << DefaultTypeAttr >>,
   types |-> [k \in 1..Len(decl) |->
                [value |-> IF k = 1 THEN "u" ELSE "v",
                 name |-> tableType(decl[k]),
                 references |-> << decl[k] >>,
                 relationName |-> resourceRelationName(TRUE, root, << S("i") >>,
                                                       decl[k], << S("i") >>)]]]

\* Relational hierarchies over three tables keyed by "i": which table declares
\* which as a subtype (by tags, or already on the codec spec), which foreign keys
\* exist, and the order in which the resources are visited.
InitTopology ==
  /\ \E lb \in {"y", "x"}, lc \in {"z", "x"} :
       pgAttributes = [c \in Classes |-> IF c = "a" THEN ITX("x")
                                         ELSE IF c = "b" THEN ITX(lb)
                                         ELSE << Att(S("i"), 1), Att(S(lc), 2) >>]
  /\ pgPk = [c \in Classes |-> Some(<< S("i") >>)]
  /\ \E fb \in SUBSET { Fk("a") }, fc \in SUBSET { Fk("a"), Fk("b") } :
       pgFks = [c \in Classes |-> IF c = "b" THEN fb ELSE IF c = "c" THEN fc ELSE {}]
  /\ \E da \in { << >>, << "b" >>, << "c" >>, << "b", "c" >> },
        db \in { << >>, << "c" >> },
        byTag \in [{"a", "b"} -> BOOLEAN] :
       LET decl == [c \in Classes |-> IF c = "a" THEN da
                                      ELSE IF c = "b" THEN db ELSE << >>]
       IN /\ \A c \in {"a", "b"} : decl[c] = << >> => byTag[c]
          /\ ifaceTag = [c \in Classes |->
                           IF decl[c] # << >> /\ byTag[c]
                           THEN IfaceTag("relational", Undefined) ELSE NoTag]
          /\ typeTags = [c \in Classes |->
                           IF decl[c] # << >> /\ byTag[c]
                           THEN DeclTags(decl[c]) ELSE << >>]
          /\ poly = [c \in Classes |->
                       IF decl[c] # << >> /\ ~byTag[c]
                       THEN PresetPoly(c, decl[c]) ELSE NoPoly]
  /\ unionTags = [c \in Classes |-> << >>]
  /\ codecFlags = [c \in Classes |-> AllFlags]
  /\ implementsTags = [c \in Classes |-> << >>]
  /\ resOrder \in Orders
  /\ Start

UnionNames == { S("S"), << " ", "S" >>, S("A") }

FlagSets ==
  { AllFlags, [AllFlags EXCEPT !.select = FALSE], [AllFlags EXCEPT !.table = FALSE],
    [AllFlags EXCEPT !.anonymous = TRUE] }

\* The declarations of root "a" explored for Type Registration.
RootDecls ==
  { [tag |-> IfaceTag("single", Undefined),
     types |-> << SingleTag("u", S("T"), << S("x") >>),
                  SingleTag("v", S("U"), << << "y", "!" >> >>) >>],
    [tag |-> IfaceTag("single", Undefined),
     types |-> << SingleTag("u", S("T"), << S("x") >>),
                  SingleTag("v", S("T"), << S("y") >>) >>],
    [tag |-> IfaceTag("single", Undefined),
     types |-> << SingleTag("u", S("B"), << >>),
                  SingleTag("v", S("U"), << >>) >>],
    [tag |-> IfaceTag("union", Undefined), types |-> << >>],
    [tag |-> IfaceTag("relational", Undefined), types |-> DeclTags(<< "b" >>)] }

\* One polymorphic root "a" of each mode, union member tags on every table, and
\* the behaviours of the root's codec.
InitRegistration ==
  /\ pgAttributes = OnA(<< Att(S("i"), 1), Att(DefaultTypeAttr, 2),
                           Att(S("x"), 3), Att(S("y"), 4) >>, << Att(S("i"), 1) >>)
  /\ pgPk = [c \in Classes |-> Some(<< S("i") >>)]
  /\ pgFks = [c \in Classes |-> IF c = "b" THEN { Fk("a") } ELSE {}]
  /\ \E d \in RootDecls :
       /\ ifaceTag = OnA(d.tag, NoTag)
       /\ typeTags = OnA(d.types, << >>)
  /\ \E ua \in { << >>, << S("S") >> },
        ub \in SeqsUpTo(UnionNames, MaxUnionTags),
        uc \in { << >>, << S("S") >> } :
       unionTags = [c \in Classes |-> IF c = "a" THEN ua
                                      ELSE IF c = "b" THEN ub ELSE uc]
  /\ \E f \in FlagSets : codecFlags = OnA(f, AllFlags)
  /\ implementsTags = [c \in Classes |-> << >>]
  /\ resOrder \in { << "a", "b", "c" >>, << "c", "b", "a" >> }
  /\ poly = [c \in Classes |-> NoPoly]
  /\ Start

ImplementsLists ==
  { << >>, << S("A") >>, << S("Z"), S("A") >>, << S("C"), S("A") >>, << S("S") >> }

\* A root "a" of each mode whose subtype table "b" may carry an implements tag
\* and may be anonymous, the behaviours of the root's codec, and a union named
\* after the root's type.
InitSchema ==
  /\ pgAttributes = OnA(<< Att(S("i"), 1), Att(DefaultTypeAttr, 2),
                           Att(S("x"), 3), Att(S("y"), 4) >>, << Att(S("i"), 1) >>)
  /\ pgPk = [c \in Classes |-> Some(<< S("i") >>)]
  /\ pgFks = [c \in Classes |-> IF c = "b" THEN { Fk("a") } ELSE {}]
  /\ \E d \in RootDecls :
       /\ ifaceTag = OnA(d.tag, NoTag)
       /\ typeTags = OnA(d.types, << >>)
  /\ \E uc \in { << >>, << S("A") >>, << S("S") >> } :
       unionTags = [c \in Classes |-> IF c = "c" THEN uc
                                      ELSE IF c = "b" THEN << S("S") >> ELSE << >>]
  /\ \E fa \in FlagSets, fb \in { AllFlags, [AllFlags EXCEPT !.anonymous = TRUE] } :
       codecFlags = [c \in Classes |-> IF c = "a" THEN fa
                                       ELSE IF c = "b" THEN fb ELSE AllFlags]
  /\ \E ia \in { << >>, << S("A") >> }, ib \in ImplementsLists :
       implementsTags = [c \in Classes |-> IF c = "a" THEN ia
                                           ELSE IF c = "b" THEN ib ELSE << >>]
  /\ resOrder = << "a", "b", "c" >>
  /\ poly = [c \in Classes |-> NoPoly]
  /\ Start

\* A relational polymorphism already on the codec spec whose stored relation
\* name is not the name of a relation of the registry.
StalePoly(root, decl) ==
  [PresetPoly(root, decl) EXCEPT
     !["types"] = [k \in 1..Len(decl) |->
                    [@[k] EXCEPT !.relationName =
                       resourceRelationName(TRUE, root, << S("i") >>,
                                            decl[k], << S("z") >>)]]]

FkJ(to) == [confrelid |-> to, attrs |-> << S("j") >>, fattrs |-> << S("i") >>]

\* Table "a", relational root by tags or on the codec spec already, of another
\* mode, or plain; "b" with up to two foreign keys to "a", one of them over its
\* primary key; "c" with or without one.
InitBehavior ==
  /\ pgAttributes = [c \in Classes |-> IF c = "a" THEN ITX("x")
                                        ELSE IF c = "b" THEN IJ
                                        ELSE << Att(S("i"), 1) >>]
  /\ pgPk = [c \in Classes |-> Some(<< S("i") >>)]
  /\ \E fb \in SUBSET { Fk("a"), FkJ("a") }, fc \in SUBSET { Fk("a") } :
       pgFks = [c \in Classes |-> IF c = "b" THEN fb ELSE IF c = "c" THEN fc ELSE {}]
  /\ \E d \in { [tag |-> NoTag, types |-> << >>, preset |-> NoPoly],
                 [tag |-> IfaceTag("relational", Undefined),
                  types |-> DeclTags(<< "b" >>), preset |-> NoPoly],
                 [tag |-> IfaceTag("relational", Undefined),
                  types |-> DeclTags(<< "b", "c" >>), preset |-> NoPoly],
                 [tag |-> IfaceTag("union", Undefined), types |-> << >>,
                  preset |-> NoPoly],
                 [tag |-> NoTag, types |-> << >>,
                  preset |-> StalePoly("a", << "b" >>)] } :
       /\ ifaceTag = OnA(d.tag, NoTag)
       /\ typeTags = OnA(d.types, << >>)
       /\ poly = OnA(d.preset, NoPoly)
  /\ unionTags = [c \in Classes |-> << >>]
  /\ codecFlags = [c \in Classes |-> AllFlags]
  /\ implementsTags = [c \in Classes |-> << >>]
  /\ resOrder = << "a", "b", "c" >>
  /\ Start

Init ==
  \/ InitSingle
  \/ InitKeys
  \/ InitTopology
  \/ InitRegistration
  \/ InitSchema
  \/ InitBehavior

----------------------------------------------------------------------------
\* The build.

MaxSynthRuns == 2

\* Discovery that puts the polymorphism on the codec spec before the type tags
\* are validated: a throw leaves the spec with the mode and no types.
DiscoverAttachingFirst(c) ==
  /\ phase = "discovery"
  /\ discovered[c] = "pending"
  /\ LET r == recordTypeSpec(c)
     IN /\ discovered' = [discovered EXCEPT ![c] =
                            IF ~r.ok THEN "failed"
                            ELSE IF r.attach THEN "attached" ELSE "none"]
        /\ poly' = IF r.ok /\ r.attach
                   THEN [poly EXCEPT ![c] = r.polymorphism]
                   ELSE IF ~r.ok
                   THEN [poly EXCEPT ![c] =
                           [mode |-> "union", partial |-> ifaceTag[c].mode]]
                   ELSE poly
  /\ UNCHANGED << inputVars, executeVars, phase, codecAttrs, refs, passErr, refsFirst,
                  synthRuns, registered, unionsToRegister, recovered, hookCall >>

\* Discovery of one class: the hook attaches the polymorphism, or throws and
\* leaves the codec spec as it was.
Discover(c) ==
  /\ phase = "discovery"
  /\ discovered[c] = "pending"
  /\ LET r == recordTypeSpec(c)
     IN /\ discovered' = [discovered EXCEPT ![c] =
                            IF ~r.ok THEN "failed"
                            ELSE IF r.attach THEN "attached" ELSE "none"]
        /\ poly' = IF r.ok /\ r.attach
                   THEN [poly EXCEPT ![c] = r.polymorphism] ELSE poly
  /\ UNCHANGED << inputVars, executeVars, phase, codecAttrs, refs, passErr, refsFirst,
                  synthRuns, registered, unionsToRegister, recovered, hookCall >>

\* Attribute Inheritance that does not wait for the codecs still to be built.
InheritEarly ==
  /\ phase = "discovery"
  /\ LET r == inheritPass(resOrder, codecAttrs)
     IN /\ codecAttrs' = r.attrs
        /\ passErr' = [passErr EXCEPT !.inherit = r.err]
        /\ phase' = IF r.err = Undefined THEN "inherited" ELSE "aborted"
  /\ UNCHANGED << inputVars, executeVars, discovered, poly, refs, refsFirst, synthRuns,
                  registered, unionsToRegister, recovered, hookCall >>

\* Attribute Inheritance over the whole registry, once every codec exists.
Inherit ==
  /\ phase = "discovery"
  /\ \A c \in Classes : discovered[c] # "pending"
  /\ LET r == inheritPass(resOrder, codecAttrs)
     IN /\ codecAttrs' = r.attrs
        /\ passErr' = [passErr EXCEPT !.inherit = r.err]
        /\ phase' = IF r.err = Undefined THEN "inherited" ELSE "aborted"
  /\ UNCHANGED << inputVars, executeVars, discovered, poly, refs, refsFirst, synthRuns,
                  registered, unionsToRegister, recovered, hookCall >>

\* Reference Synthesis over the final registry (and a repeated run of it).
Synthesize ==
  /\ phase \in {"inherited", "synthesized"}
  /\ synthRuns < MaxSynthRuns
  /\ LET r == synthPass(resOrder, refs)
     IN /\ refs' = r.refs
        /\ refsFirst' = IF synthRuns = 0 THEN r.refs ELSE refsFirst
        /\ passErr' = [passErr EXCEPT !.synth = r.err]
        /\ phase' = IF r.err = Undefined THEN "synthesized" ELSE "aborted"
  /\ synthRuns' = synthRuns + 1
  /\ UNCHANGED << inputVars, executeVars, discovered, poly, codecAttrs, registered,
                  unionsToRegister, recovered, hookCall >>

\* Type Registration.
InitHook ==
  /\ phase = "synthesized"
  /\ LET st == initHook(resOrder)
     IN /\ registered' = st.reg
        /\ unionsToRegister' = st.unions
        /\ recovered' = st.recovered
  /\ phase' = "registered"
  /\ UNCHANGED << inputVars, executeVars, discovered, poly, codecAttrs, refs, passErr,
                  refsFirst, synthRuns, hookCall >>

\* The hooks of type construction read the registry and the codecs, and write
\* nothing that a hook reads: a behaviour follows one call of one hook.

\* A type that another plugin registered, as an entry of an incoming list.
OtherType(name, kind) ==
  Some([name |-> TypeName("", name), kind |-> kind, pgCodec |-> "",
        scope |-> [isOther |-> TRUE]])

IncomingInterfaces == { << >>, << OtherType(S("N"), "interface") >> }

IncomingTypes == { << >>, << OtherType(S("Q"), "object") >> }

\* The types thunk of a registered union is evaluated.
UnionTypes ==
  /\ phase = "registered"
  /\ hookCall = NoCall
  /\ \E u \in { t \in registered : t.kind = "union" } :
       hookCall' = [hook |-> "types", self |-> u.name, incoming |-> << >>,
                    result |-> unionMemberTypes(u.scope.codecs)]
  /\ UNCHANGED << inputVars, executeVars, phase, discovered, poly, codecAttrs, refs, passErr,
                  refsFirst, synthRuns, registered, unionsToRegister, recovered >>

\* Interface Attachment: the hook runs for an object type that is being built.
ObjectTypeInterfaces ==
  /\ phase = "registered"
  /\ hookCall = NoCall
  /\ \E self \in { t \in registered : t.kind = "object" } :
       \E interfaces \in IncomingInterfaces :
         hookCall' = [hook |-> "interfaces", self |-> self.name,
                      incoming |-> interfaces,
                      result |-> objectTypeInterfaces(interfaces, self)]
  /\ UNCHANGED << inputVars, executeVars, phase, discovered, poly, codecAttrs, refs, passErr,
                  refsFirst, synthRuns, registered, unionsToRegister, recovered >>

\* Interface Completeness: the hook runs on the schema's type list.
SchemaTypes ==
  /\ phase = "registered"
  /\ hookCall = NoCall
  /\ \E types \in IncomingTypes :
       hookCall' = [hook |-> "schemaTypes", self |-> << >>, incoming |-> types,
                    result |-> schemaTypes(types)]
  /\ UNCHANGED << inputVars, executeVars, phase, discovered, poly, codecAttrs, refs, passErr,
                  refsFirst, synthRuns, registered, unionsToRegister, recovered >>

IncomingBehaviors == { "connection list single", "" }

\* The behaviour of a relation of the registry is inferred.
RelationBehavior ==
  /\ phase = "registered"
  /\ hookCall = NoCall
  /\ \E c \in Classes : \E entity \in relationEntities(c) :
       \E behavior \in IncomingBehaviors :
         LET r == relationBehavior(behavior, entity)
         IN hookCall' = [hook |-> "relationBehavior", self |-> entity.name,
                         incoming |-> << behavior >>,
                         result |-> IF r.ok THEN r.behavior ELSE << "TypeError" >>]
  /\ UNCHANGED << inputVars, executeVars, phase, discovered, poly, codecAttrs, refs, passErr,
                  refsFirst, synthRuns, registered, unionsToRegister, recovered >>

Next ==
  \/ \E c \in Classes : Discover(c)
  \/ Inherit
  \/ Synthesize
  \/ InitHook
  \/ UnionTypes
  \/ ObjectTypeInterfaces
  \/ SchemaTypes
  \/ RelationBehavior

Spec == Init /\ [][Next]_vars

----------------------------------------------------------------------------
\* Execution: withGrafastArgs.

MaxEmitted == 2

OperationTypes == { "plan", "sql" }

\* !!options.explain?.length
shouldExplain == options.explain # Undefined /\ Len(options.explain[1]) > 0

ExplainOptions ==
  { Undefined, Some(<< >>), Some(<< "plan" >>), Some(<< "sql" >>),
    Some(<< "plan", "sql" >>) }

RootValues ==
  { RootValue("null", 0), RootValue("nonObject", 0), RootValue("object", 0),
    RootValue("object", 1) }

\* No build is under way.
BuildIdle ==
  /\ pgAttributes = [c \in Classes |-> << >>]
  /\ pgPk = [c \in Classes |-> Undefined]
  /\ pgFks = [c \in Classes |-> {}]
  /\ ifaceTag = [c \in Classes |-> NoTag]
  /\ typeTags = [c \in Classes |-> << >>]
  /\ unionTags = [c \in Classes |-> << >>]
  /\ codecFlags = [c \in Classes |-> AllFlags]
  /\ implementsTags = [c \in Classes |-> << >>]
  /\ resOrder = << >>
  /\ poly = [c \in Classes |-> NoPoly]
  /\ BuildStart

\* withGrafastArgs has been called with some arguments and options.
ExecuteInit ==
  /\ BuildIdle
  /\ options \in [explain : ExplainOptions]
  /\ nodeEnv \in { "development", "production" }
  /\ args \in [rootValue : RootValues]
  /\ eventListeners = << >>
  /\ pc = "called"
  /\ prepareResult = "none"
  /\ unlistenJob = "none"
  /\ emitted = << >>

buildVars == << inputVars, phase, discovered, poly, codecAttrs, refs, passErr,
               refsFirst, synthRuns, registered, unionsToRegister, recovered,
               hookCall >>

\* withGrafastArgs up to the call of grafastPrepare: the root value is checked
\* and defaulted and, when explaining, given its extensions and event emitter,
\* on which the listener is registered.
WithGrafastArgs ==
  /\ pc = "called"
  /\ LET given == args.rootValue
         rootValue == IF given.kind = "null" THEN RootValue("object", 0) ELSE given
     IN IF \/ /\ nodeEnv = "development"
               /\ given.kind # "null"
               /\ (given.kind # "object" \/ given.keys > 0)
            \/ rootValue.kind # "object"
        THEN /\ pc' = "threw"
             /\ UNCHANGED << args, eventListeners >>
        ELSE /\ pc' = "grafastPrepare"
             /\ args' = [rootValue |->
                           IF shouldExplain
                           THEN [rootValue EXCEPT !.extensions = Some(<< >>),
                                                  !.eventEmitter = TRUE]
                           ELSE rootValue]
             /\ eventListeners' = IF shouldExplain
                                   THEN Append(eventListeners, "handleExplainOperation")
                                   ELSE eventListeners
  /\ UNCHANGED << buildVars, options, nodeEnv, prepareResult, unlistenJob, emitted >>

\* handleExplainOperation: the operation is pushed when its type is in the
\* explain option.
handleExplainOperation(rootValue, operation) ==
  IF operation.type \in SeqToSet(options.explain[1])
  THEN [rootValue EXCEPT !.extensions = Some(Append(@[1], operation))]
  ELSE rootValue

\* An explainOperation event is emitted on the root value's event emitter,
\* while the operation is being prepared or executed; every listener runs.
EmitExplainOperation(type) ==
  /\ args.rootValue.eventEmitter
  /\ pc = "grafastPrepare" \/ prepareResult \in { "pending", "fulfilled" }
  /\ Len(emitted) < MaxEmitted
  /\ LET operation == [type |-> type, title |-> Len(emitted) + 1]
     IN /\ emitted' = Append(emitted, [operation |-> operation,
                                       heard |-> eventListeners # << >>])
        /\ args' = [rootValue |->
                      IF eventListeners # << >>
                      THEN handleExplainOperation(args.rootValue, operation)
                      ELSE args.rootValue]
  /\ UNCHANGED << buildVars, options, nodeEnv, eventListeners, pc, prepareResult,
                  unlistenJob >>

\* grafastPrepare returns a value or a promise, or throws, and withGrafastArgs
\* runs to its end: Promise.resolve(rootValue).then(unlisten, unlisten) is
\* reached on a return only, and its reaction is queued at once for a value.
GrafastPrepare(outcome) ==
  /\ pc = "grafastPrepare"
  /\ IF outcome = "throws"
     THEN /\ pc' = "threw"
          /\ prepareResult' = "threw"
          /\ UNCHANGED unlistenJob
     ELSE /\ pc' = "returned"
          /\ prepareResult' = IF outcome = "promise" THEN "pending" ELSE "value"
          /\ unlistenJob' = IF ~shouldExplain THEN "none"
                            ELSE IF outcome = "promise" THEN "waiting"
                            ELSE "queued"
  /\ UNCHANGED << buildVars, options, nodeEnv, args, eventListeners, emitted >>

\* The promise grafastPrepare returned settles; the reaction waiting for it is
\* queued.
PromiseSettles(state) ==
  /\ prepareResult = "pending"
  /\ prepareResult' = state
  /\ unlistenJob' = IF unlistenJob = "waiting" THEN "queued" ELSE unlistenJob
  /\ UNCHANGED << buildVars, options, nodeEnv, args, eventListeners, pc, emitted >>

\* unlisten: the queued reaction removes the listener.
Unlisten ==
  /\ unlistenJob = "queued"
  /\ unlistenJob' = "ran"
  /\ eventListeners' = SelectSeq(eventListeners,
                                 LAMBDA l : l # "handleExplainOperation")
  /\ UNCHANGED << buildVars, options, nodeEnv, args, pc, prepareResult, emitted >>

ExecuteNext ==
  \/ WithGrafastArgs
  \/ \E type \in OperationTypes : EmitExplainOperation(type)
  \/ \E outcome \in { "value", "promise", "throws" } : GrafastPrepare(outcome)
  \/ \E state \in { "fulfilled", "rejected" } : PromiseSettles(state)
  \/ Unlisten

\* The synchronous code runs to its end, the promise of the claim's cases
\* settles, and a queued reaction is run.
ExecuteSpec ==
  /\ ExecuteInit
  /\ [][ExecuteNext]_vars
  /\ WF_vars(WithGrafastArgs)
  /\ WF_vars(\E outcome \in { "value", "promise", "throws" } : GrafastPrepare(outcome))
  /\ WF_vars(\E state \in { "fulfilled", "rejected" } : PromiseSettles(state))
  /\ WF_vars(Unlisten)

----------------------------------------------------------------------------
\* Properties of Discovery.

Attached(c) == discovered[c] = "attached"

\* The attribute names listed in the override lists of the types stored in a
\* single-mode polymorphism.
OverrideNames(p) ==
  UNION { { p.types[i].attributes[j].attribute :
            j \in 1..Len(p.types[i].attributes) } : i \in 1..Len(p.types) }

\* C1: after Discovery of a single-mode root, no name of commonAttributes is
\* named by an override of any stored type.
C1_CommonDisjointFromOverrides ==
  \A c \in Classes :
    (Attached(c) /\ poly[c].mode = "single")
      => SeqToSet(poly[c].commonAttributes) \cap OverrideNames(poly[c]) = {}

\* A single-mode root whose overrides name attributes of the table and which
\* keeps some common attribute.
C1_Witness ==
  \E c \in Classes :
    /\ Attached(c) /\ poly[c].mode = "single"
    /\ OverrideNames(poly[c]) \cap SeqToSet(attributeNames(c)) # {}
    /\ Len(poly[c].commonAttributes) > 0
    /\ \E i \in 1..Len(poly[c].types) :
         \E j \in 1..Len(poly[c].types[i].attributes) :
           poly[c].types[i].attributes[j].isNotNull

\* C2: after Discovery of a single-mode root, commonAttributes united with the
\* attribute names of the stored override lists is the table's attribute set.
C2_CommonAndOverridesCoverTable ==
  \A c \in Classes :
    (Attached(c) /\ poly[c].mode = "single")
      => SeqToSet(poly[c].commonAttributes) \cup OverrideNames(poly[c])
           = SeqToSet(attributeNames(c))

\* The discriminator attribute the interface tag declares.
DeclaredTypeAttr(c) ==
  IF ifaceTag[c].type = Undefined THEN DefaultTypeAttr ELSE ifaceTag[c].type[1]

HasAttribute(c, name) == \E i \in 1..Len(pgAttributes[c]) : pgAttributes[c][i].attname = name

\* A declared subtype is acceptable: the referenced table exists, both tables
\* have a primary key, and the referenced table has a foreign key to the root
\* whose attribute lists equal the two primary keys position by position.
Acceptable(root, tag) ==
  /\ tag.references # << >>
  /\ LET id == IF Len(tag.references) = 1 THEN << Nspname, tag.references[1] >>
               ELSE tag.references
     IN /\ id[1] = Nspname
        /\ id[2] \in Classes
        /\ pgPk[root] # Undefined
        /\ pgPk[id[2]] # Undefined
        /\ \E k \in pgFks[id[2]] :
             /\ k.confrelid = root
             /\ k.attrs = pgPk[id[2]][1]
             /\ k.fattrs = pgPk[root][1]

\* C3: Discovery of a relational root accepts its declared subtypes exactly when
\* each is acceptable (and the discriminator exists); a foreign key with the
\* right attribute sets in another order does not count.
C3_RelationalAcceptsIffKeysMatch ==
  \A c \in Classes :
    (ifaceTag[c].present /\ ifaceTag[c].isString /\ ifaceTag[c].mode = "relational"
       /\ discovered[c] # "pending")
      => ( Attached(c) <=>
             /\ HasAttribute(c, DeclaredTypeAttr(c))
             /\ \A i \in 1..Len(typeTagsOf(c)) : Acceptable(c, typeTagsOf(c)[i]) )

\* A relational root rejected although the only foreign key to it has the
\* attribute sets of both primary keys, in another order.
C3_Witness ==
  \E c \in Classes :
    /\ ifaceTag[c].mode = "relational"
    /\ discovered[c] = "failed"
    /\ HasAttribute(c, DeclaredTypeAttr(c))
    /\ \E d \in Classes :
         /\ typeTagsOf(c) = << RelTag("u", << d >>) >>
         /\ pgPk[c] # Undefined /\ pgPk[d] # Undefined
         /\ Len(pgPk[d][1]) = 2
         /\ \E k \in pgFks[d] :
              /\ k.confrelid = c
              /\ SeqToSet(k.attrs) = SeqToSet(pgPk[d][1])
              /\ Len(k.attrs) = Len(pgPk[d][1])
              /\ k.attrs # pgPk[d][1]
              /\ k.fattrs = pgPk[c][1]

\* An accepted relational root over two-column keys.
C3_WitnessAccepted ==
  \E c \in Classes :
    /\ Attached(c) /\ poly[c].mode = "relational"
    /\ Len(pgPk[c][1]) = 2

\* C4 as stated: every descriptor that carries a polymorphism after Discovery has
\* its declared discriminator attribute on its table.
C4_DiscriminatorExists ==
  \A c \in Classes : Attached(c) => HasAttribute(c, DeclaredTypeAttr(c))

\* C4 amended: every descriptor on which Discovery attached a single or
\* relational polymorphism has its declared discriminator attribute among the
\* attributes of its table, and it is the one the polymorphism names.
C4_DiscriminatorExistsUnlessUnion ==
  \A c \in Classes :
    (Attached(c) /\ poly[c].mode \in {"single", "relational"})
      => /\ HasAttribute(c, DeclaredTypeAttr(c))
         /\ poly[c].typeAttributes = << DeclaredTypeAttr(c) >>

\* A root attached with a discriminator that its interface tag declares.
C4_Witness ==
  /\ \E c \in Classes : Attached(c) /\ poly[c].mode \in {"single", "relational"}
                        /\ ifaceTag[c].type # Undefined
                        /\ HasAttribute(c, ifaceTag[c].type[1])

\* An override entry written in the grammar name[!][>rename].
OverrideEntry(name, bang, rename) ==
  name \o (IF bang THEN << "!" >> ELSE << >>)
       \o (IF rename = Undefined THEN << >> ELSE << ">" >> \o rename[1])

\* What the grammar says an entry means.
GrammarParses ==
  { [raw |-> OverrideEntry(n, b, r),
     parsed |-> [attribute |-> n, isNotNull |-> b, rename |-> r]] :
    n \in { S("x"), S("y"), S("q") }, b \in BOOLEAN,
    r \in { Undefined, Some(S("r")) } }

Meaning(raw) == (CHOOSE g \in GrammarParses : g.raw = raw).parsed

\* The type tag that wrote the stored type of a discriminator value: the last
\* tag of that value.
LastTagOf(c, value) ==
  LET at == { i \in 1..Len(typeTags[c]) : typeTags[c][i].value = value }
  IN typeTags[c][CHOOSE i \in at : \A j \in at : j <= i]

\* C16: in the polymorphism Discovery attached to a single-mode root, every
\* stored override is what the grammar name[!][>rename] says of the entry as
\* written (attribute the name, isNotNull exactly with '!', rename the text after
\* '>'), and commonAttributes are the table's attributes that no entry names.
C16_OverridesParsedByGrammar ==
  \A c \in Classes :
    (Attached(c) /\ poly[c].mode = "single") =>
      /\ \A i \in 1..Len(poly[c].types) :
           LET written == LastTagOf(c, poly[c].types[i].value).attributes
           IN /\ Len(poly[c].types[i].attributes) = Len(written)
              /\ \A j \in 1..Len(written) :
                   poly[c].types[i].attributes[j] = Meaning(written[j])
      /\ SeqToSet(poly[c].commonAttributes)
           = SeqToSet(attributeNames(c))
               \ UNION { { Meaning(typeTags[c][i].attributes[j]).attribute :
                           j \in 1..Len(typeTags[c][i].attributes) } :
                         i \in 1..Len(typeTags[c]) }

\* One of the configuration errors of Discovery is present on a table.
ConfigurationError(c) ==
  /\ ifaceTag[c].present /\ ifaceTag[c].isString
  /\ \/ ifaceTag[c].mode \notin {"single", "relational", "union"}
     \/ /\ ifaceTag[c].mode \in {"single", "relational"}
        /\ ~HasAttribute(c, DeclaredTypeAttr(c))
     \/ /\ ifaceTag[c].mode = "single"
        /\ \E i \in 1..Len(typeTagsOf(c)) : typeTagsOf(c)[i].name = << >>
     \/ /\ ifaceTag[c].mode = "relational"
        /\ \E i \in 1..Len(typeTagsOf(c)) : ~Acceptable(c, typeTagsOf(c)[i])

\* C17: Discovery of a table with a configuration error (missing discriminator,
\* type tag without a name, missing primary key, missing or mismatched foreign
\* key, unresolved reference, unsupported or absent mode) fails, and a table
\* whose Discovery failed carries no polymorphism at all.
C17_DiscoveryErrorLeavesNoSpec ==
  \A c \in Classes :
    /\ (discovered[c] # "pending" /\ ConfigurationError(c))
         => discovered[c] = "failed"
    /\ discovered[c] = "failed" => poly[c] = NoPoly

\* Discovery of a relational root failed at its second type tag, after the first
\* one had been accepted.
C17_Witness ==
  \E c \in Classes :
    /\ discovered[c] = "failed"
    /\ ifaceTag[c].mode = "relational"
    /\ HasAttribute(c, DeclaredTypeAttr(c))
    /\ Len(typeTags[c]) = 2
    /\ Acceptable(c, typeTags[c][1])
    /\ ~Acceptable(c, typeTags[c][2])

\* Discovery of a single-mode root failed at a type tag without a name, after a
\* tag with overrides.
C17_WitnessSingle ==
  \E c \in Classes :
    /\ discovered[c] = "failed"
    /\ ifaceTag[c].mode = "single"
    /\ HasAttribute(c, DeclaredTypeAttr(c))
    /\ Len(typeTags[c]) = 2
    /\ typeTags[c][1].name # << >> /\ typeTags[c][1].attributes # << >>
    /\ typeTags[c][2].name = << >>

----------------------------------------------------------------------------
\* Properties of the passes over the registry.

RelationalRoots == { r \in Classes : poly[r].mode = "relational" }

\* The relational roots whose polymorphism Discovery attached.
DiscoveredRoots == { r \in RelationalRoots : Attached(r) }

\* The class a type spec of a relational root refers to.
DeclaredClass(spec) ==
  IF Len(spec.references) = 1 THEN spec.references[1] ELSE spec.references[2]

\* The shared relation of a root and a subtype: the subtype's relation to the root
\* over the two primary keys.
SharedRelationName(root, sub) ==
  << FALSE, sub, pgPk[sub][1], root, pgPk[root][1] >>

Names(attrs) == { o.name : o \in attrs }

InheritanceCompleted == phase \in {"inherited", "synthesized", "registered"}

\* C5: after Attribute Inheritance has completed without error, every declared
\* subtype of every relational root (as Discovery attached it) has all attribute
\* names of the root, each of them with identicalVia or via equal to the pair's
\* shared relation name.
C5_SubtypeInheritsRootAttributes ==
  (InheritanceCompleted /\ RelationalRoots = DiscoveredRoots) =>
    \A r \in DiscoveredRoots : \A i \in 1..Len(poly[r].types) :
      LET sub == DeclaredClass(poly[r].types[i])
          shared == Some(SharedRelationName(r, sub))
      IN /\ Names(codecAttrs[r]) \subseteq Names(codecAttrs[sub])
         /\ \A o \in codecAttrs[sub] :
              o.name \in Names(codecAttrs[r])
                => (o.identicalVia = shared \/ o.via = shared)

\* C6: a second run of Reference Synthesis over the same registry leaves every
\* refs map as the first run left it.
C6_SynthesisIdempotent ==
  synthRuns >= 2 => refs = refsFirst

\* Reference Synthesis has run twice and a subtype has a synthesized ref.
C6_Witness ==
  /\ synthRuns >= 2
  /\ \E c \in Classes : \E q \in refs[c] : Len(q.paths) = 1 /\ q.definition.singular

\* C7: in the union-membership accumulator no member appears twice in the list
\* of a union.
C7_UnionMembersDeduplicated ==
  phase = "registered" =>
    \A k \in 1..Len(unionsToRegister) :
      \A i, j \in 1..Len(unionsToRegister[k].codecs) :
        i # j => unionsToRegister[k].codecs[i] # unionsToRegister[k].codecs[j]

\* The codec attributes every build starts from.
StartAttrs ==
  [c \in Classes |->
     { [name |-> n, via |-> Undefined, identicalVia |-> Undefined] :
       n \in SeqToSet(attributeNames(c)) }]

\* C8: a build that ran to the end, all its roots attached by Discovery, has the
\* attribute names, reference names and registered type names of the build over
\* the same input in any other visiting order.
C8_ResultIndependentOfOrder ==
  (phase = "registered" /\ RelationalRoots = DiscoveredRoots) =>
    \A o \in Orders :
      LET inh == inheritPass(o, StartAttrs)
          syn == synthPass(o, [c \in Classes |-> {}])
          reg == initHook(o)
      IN /\ \A c \in Classes : Names(inh.attrs[c]) = Names(codecAttrs[c])
         /\ \A c \in Classes : Names(syn.refs[c]) = Names(refs[c])
         /\ { t.name : t \in reg.reg } = { t.name : t \in registered }

\* A relational root whose own unit of work raises no configuration error.
SoundRoot(r) ==
  /\ pgPk[r] # Undefined
  /\ \A i \in 1..Len(poly[r].types) :
       LET id == parseDatabaseIdentifier(poly[r].types[i].references, Nspname)
       IN /\ getClassByName(id[1], id[2]) # Undefined
          /\ pgPk[id[2]] # Undefined
          /\ \E k \in pgFks[id[2]] :
               k.confrelid = r /\ k.attrs = pgPk[id[2]][1] /\ k.fattrs = pgPk[r][1]

PassesOver == phase \in {"aborted", "synthesized", "registered"}

\* C9: once the two passes are over, every relational root without an error of
\* its own has given each declared subtype its attributes and one reference per
\* relation of the root, whatever happened to the other roots.
C9_ErrorAbortsOnlyItsRoot ==
  PassesOver =>
    \A r \in RelationalRoots :
      SoundRoot(r) =>
        \A i \in 1..Len(poly[r].types) :
          LET sub == DeclaredClass(poly[r].types[i])
          IN /\ SeqToSet(attributeNames(r)) \subseteq Names(codecAttrs[sub])
             /\ { rel.name : rel \in pgRelations(r) } \subseteq Names(refs[sub])

\* The refs on a subtype that lead through its shared relation to the root.
SynthesizedRefs(r, sub) ==
  { q \in refs[sub] : q.paths = << << SharedRelationName(r, sub), q.name >> >> }

\* The relations of a root to its declared subtypes.
SharedToSubtypes(r) ==
  { poly[r].types[i].relationName : i \in 1..Len(poly[r].types) }

\* C18: after Reference Synthesis, each subtype of a relational root has a
\* synthesized reference for exactly the relations of the root other than the
\* root's relations to its subtypes, stored under the relation's name with the
\* single path (shared relation, relation), singular exactly when the relation
\* is unique.
C18_RefsForOtherRelationsOfRoot ==
  (phase \in {"synthesized", "registered"} /\ RelationalRoots = DiscoveredRoots) =>
    \A r \in DiscoveredRoots : \A i \in 1..Len(poly[r].types) :
      LET sub == DeclaredClass(poly[r].types[i])
          others == { rel \in pgRelations(r) : rel.name \notin SharedToSubtypes(r) }
      IN /\ { q.name : q \in SynthesizedRefs(r, sub) } = { rel.name : rel \in others }
         /\ \A q \in SynthesizedRefs(r, sub) : \A rel \in pgRelations(r) :
              rel.name = q.name => q.definition.singular = rel.isUnique

\* The relation names that Attribute Inheritance wrote on the attributes of a
\* class.
InheritanceNames(sub) ==
  { o.via[1] : o \in { p \in codecAttrs[sub] : p.via # Undefined } }
    \cup { o.identicalVia[1] :
           o \in { p \in codecAttrs[sub] : p.identicalVia # Undefined } }

\* The relation names that Reference Synthesis used as the first hop of the
\* refs of a class.
SynthesisNames(sub) == { q.paths[1][1] : q \in refs[sub] }

\* Those of the names that lead to root r (position 4 of a relation name is the
\* foreign class).
ToRoot(names, r) == { n \in names : n[4] = r }

\* C19: (i) for every type tag of a relational root that names a table, the key
\* check of the later passes accepts the pair exactly when Discovery's check
\* accepts it; (ii) when every relational root was attached by Discovery, neither
\* later pass ends in an error; (iii) the shared relation name that Attribute
\* Inheritance wrote and the one Reference Synthesis used for a pair are the same
\* name, the subtype's relation to the root over the two primary keys.
C19_LaterChecksAgreeWithDiscovery ==
  /\ \A c \in Classes : \A i \in 1..Len(typeTags[c]) :
       (ifaceTag[c].mode = "relational" /\ typeTags[c][i].references # << >>)
         => (relationalType(c, typeTags[c][i]).ok
               <=> sharedRelation(c, typeTags[c][i]).ok)
  /\ RelationalRoots = DiscoveredRoots
       => /\ phase # "aborted"
          /\ passErr = [inherit |-> Undefined, synth |-> Undefined]
          /\ phase \in {"synthesized", "registered"} =>
               \A r \in DiscoveredRoots : \A i \in 1..Len(poly[r].types) :
                 LET sub == DeclaredClass(poly[r].types[i])
                 IN /\ ToRoot(SynthesisNames(sub), r)
                         = { SharedRelationName(r, sub) }
                    /\ ToRoot(InheritanceNames(sub), r)
                         \subseteq { SharedRelationName(r, sub) }
                    /\ \E o \in codecAttrs[sub] :
                         \/ o.via = Some(SharedRelationName(r, sub))
                         \/ o.identicalVia = Some(SharedRelationName(r, sub))

\* Both later passes have run over a relational root that Discovery attached,
\* with two-column primary keys on the root and on its subtype.
C19_Witness ==
  /\ phase = "synthesized"
  /\ RelationalRoots = DiscoveredRoots
  /\ \E r \in DiscoveredRoots : \E i \in 1..Len(poly[r].types) :
       /\ Len(pgPk[r][1]) = 2
       /\ SynthesizedRefs(r, DeclaredClass(poly[r].types[i])) # {}

\* Discovery rejected a pair whose foreign key has the columns of the keys in
\* another order, and the later check rejects it as well.
C19_WitnessRejected ==
  \E c \in Classes :
    /\ discovered[c] = "failed"
    /\ ifaceTag[c].mode = "relational"
    /\ HasAttribute(c, DeclaredTypeAttr(c))
    /\ Len(typeTags[c]) = 1 /\ typeTags[c][1].references = << "b" >>
    /\ pgPk[c] # Undefined /\ pgPk["b"] # Undefined
    /\ \E k \in pgFks["b"] : k.confrelid = c /\ SeqToSet(k.attrs) = SeqToSet(pgPk["b"][1])
    /\ ~sharedRelation(c, typeTags[c][1]).ok

----------------------------------------------------------------------------
\* Properties of Type Registration.

RegisteredFor(c) == { t \in registered : t.pgCodec = c }

\* The concrete object types among them.
ConcreteFor(c) ==
  { t \in RegisteredFor(c) :
      t.kind = "object" /\ "isPgClassType" \in DOMAIN t.scope }

HasConnection(c, base) ==
  \E t \in RegisteredFor(c) : t.name = TypeName("Connection", base)

PolymorphicRoots == { c \in Classes : poly[c].mode # "none" }

Exposed(c) ==
  codecFlags[c].table /\ codecFlags[c].select /\ ~codecFlags[c].anonymous

\* What C11 says of one polymorphic root.
RegistersItsTypes(c) ==
  IF Exposed(c)
  THEN /\ { t.name : t \in { u \in RegisteredFor(c) : u.kind = "interface" } }
            = { TypeName("", tableType(c)) }
       /\ HasConnection(c, tableType(c))
       /\ IF poly[c].mode = "single"
          THEN /\ \A i \in 1..Len(poly[c].types) :
                    /\ \E t \in ConcreteFor(c) :
                         /\ t.name = TypeName("", poly[c].types[i].name)
                         /\ t.scope.pgPolymorphicSingleTableType.typeIdentifier
                              = poly[c].types[i].value
                         /\ t.scope.pgPolymorphicSingleTableType.attributes
                              = poly[c].types[i].attributes
                    /\ HasConnection(c, poly[c].types[i].name)
               /\ Cardinality(ConcreteFor(c)) = Len(poly[c].types)
          ELSE ConcreteFor(c) = {}
  ELSE RegisteredFor(c) = {}

C11_WitnessUnselectable ==
  /\ phase = "registered"
  /\ \E c \in PolymorphicRoots : ~codecFlags[c].select /\ RegisteredFor(c) = {}

----------------------------------------------------------------------------
\* Properties of type construction.

\* The accumulated entry of a union type name.
AccumulatedUnion(typeName) ==
  CHOOSE k \in 1..Len(unionsToRegister) :
    TypeName("", unionsToRegister[k].name) = typeName

\* A type of the name of the codec's table type is registered.
Constructed(c) == \E t \in registered : t.name = TypeName("", tableType(c))

\* The member list the types thunk returned is the accumulated members whose
\* table type is registered, in their order, nothing else.
MembersAreConstructedOnes ==
  hookCall.hook = "types" =>
    LET kept == SelectSeq(unionsToRegister[AccumulatedUnion(hookCall.self)].codecs,
                          Constructed)
    IN /\ Len(hookCall.result) = Len(kept)
       /\ \A i \in 1..Len(kept) :
            /\ hookCall.result[i] # Undefined
            /\ hookCall.result[i][1].name = TypeName("", tableType(kept[i]))

UnionTypesNamed(name) ==
  { t \in registered : t.kind = "union" /\ t.name = TypeName("", name) }

SelfType == CHOOSE t \in registered : t.name = hookCall.self

IsInterfaceName(n) ==
  \E t \in registered : t.name = TypeName("", n) /\ t.kind = "interface"

\* The relational roots, in visiting order, that declare a type of the name.
RootsDeclaring(typeName) ==
  SelectSeq(resOrder,
            LAMBDA r : /\ poly[r].mode = "relational"
                       /\ \E i \in 1..Len(poly[r].types) :
                            TypeName("", poly[r].types[i].name) = typeName)

\* The names of the interfaces that sources (a) and (b) give an object type.
ExpectedInterfaces(self) ==
  LET a == SelectSeq(implementsTags[self.pgCodec], IsInterfaceName)
      b == RootsDeclaring(self.name)
  IN [i \in 1..Len(a) |-> TypeName("", a[i])]
       \o [i \in 1..Len(b) |-> TypeName("", tableType(b[i]))]

\* C13: the interface list that Interface Attachment returns for a concrete
\* object type is the incoming list, then the interface of every name of the
\* implements tag that resolves to an interface, then the interface of every
\* relational root that declares a type of this object type's name; every entry
\* is an interface.
C13_InterfacesAreIncomingPlusBothSources ==
  (hookCall.hook = "interfaces" /\ "isPgClassType" \in DOMAIN SelfType.scope) =>
    LET expected == ExpectedInterfaces(SelfType)
        n == Len(hookCall.incoming)
    IN /\ Len(hookCall.result) = n + Len(expected)
       /\ SubSeq(hookCall.result, 1, n) = hookCall.incoming
       /\ \A i \in 1..Len(expected) :
            /\ hookCall.result[n + i] # Undefined
            /\ hookCall.result[n + i][1].name = expected[i]
            /\ hookCall.result[n + i][1].kind = "interface"

\* The registered interfaces whose scope carries a single or relational
\* polymorphism.
ForcingInterfaces ==
  { t \in registered :
      /\ t.kind = "interface"
      /\ "pgPolymorphism" \in DOMAIN t.scope
      /\ t.scope.pgPolymorphism.mode \in {"single", "relational"} }

\* The names of the concrete subtypes these interfaces declare.
DeclaredSubtypeNames ==
  UNION { { TypeName("", t.scope.pgPolymorphism.types[i].name) :
            i \in 1..Len(t.scope.pgPolymorphism.types) } : t \in ForcingInterfaces }

\* What Interface Completeness appended to the incoming type list.
AppendedTypes ==
  SubSeq(hookCall.result, Len(hookCall.incoming) + 1, Len(hookCall.result))

InTypeList(name) ==
  \E j \in 1..Len(AppendedTypes) :
    AppendedTypes[j] # Undefined /\ AppendedTypes[j][1].name = name

\* The hook keeps the incoming list, and each entry it appends stands for a
\* declared subtype of a single or relational interface.
AppendsOnlyDeclaredSubtypes ==
  /\ SubSeq(hookCall.result, 1, Len(hookCall.incoming)) = hookCall.incoming
  /\ \A j \in 1..Len(AppendedTypes) :
       \/ AppendedTypes[j] = Undefined
       \/ AppendedTypes[j][1].name \in DeclaredSubtypeNames
  /\ ForcingInterfaces = {} => AppendedTypes = << >>

C14_WitnessUnion ==
  /\ hookCall.hook = "schemaTypes"
  /\ \E t \in registered :
       t.kind = "interface" /\ t.scope.pgPolymorphism.mode = "union"
  /\ hookCall.result = hookCall.incoming /\ hookCall.incoming # << >>

\* C20: every entry that Interface Attachment appends to an interface list, and
\* every entry that Interface Completeness appends to the type list, is a
\* registered type, never an absent value; and Interface Attachment appends no
\* interface twice to the same object type.
C20_AppendedEntriesAreRegisteredTypes ==
  /\ hookCall.hook \in {"interfaces", "schemaTypes"} =>
       \A j \in 1..Len(AppendedTypes) :
         /\ AppendedTypes[j] # Undefined
         /\ AppendedTypes[j][1] \in registered
  /\ hookCall.hook = "interfaces" =>
       \A i, j \in 1..Len(AppendedTypes) :
         i # j => AppendedTypes[i] # AppendedTypes[j]

----------------------------------------------------------------------------
\* The order of the phases.

DiscoveryFinished == \A c \in Classes : discovered[c] # "pending"

----------------------------------------------------------------------------
\* Properties of the inferred relation behaviour.

\* The relation whose behaviour was inferred by the latest call.
BehaviorEntity ==
  CHOOSE e \in UNION { relationEntities(c) : c \in Classes } : e.name = hookCall.self

\* (i) a unique, non-referencee relation from a concrete type to a relational
\* root that lists the type, the root's shared relation for the type having
\* remote attributes positionally equal to the relation's local attributes.
ConcreteToRoot(e) ==
  /\ e.isUnique
  /\ ~e.isReferencee
  /\ poly[e.remote].mode = "relational"
  /\ \E i \in 1..Len(poly[e.remote].types) :
       /\ poly[e.remote].types[i].name = tableType(e.localCodec)
       /\ \E shared \in relationEntities(e.remote) :
            /\ shared.name = poly[e.remote].types[i].relationName
            /\ shared.remoteAttributes = e.localAttributes

\* (ii) a referencee relation on a relational root that is one of the root's
\* shared relations to its declared subtypes.
RootToSubtype(e) ==
  /\ e.isReferencee
  /\ poly[e.localCodec].mode = "relational"
  /\ \E i \in 1..Len(poly[e.localCodec].types) :
       poly[e.localCodec].types[i].relationName = e.name

BehaviorThrew == hookCall.result = << "TypeError" >>

SuppressesExactlyTwoKinds ==
  hookCall.result =
    IF ConcreteToRoot(BehaviorEntity) \/ RootToSubtype(BehaviorEntity)
    THEN hookCall.incoming \o << SuppressedBehavior >>
    ELSE hookCall.incoming

\* C21: the inferred relation behaviour appends "-connection -list -single" to
\* exactly the relations of kinds (i) and (ii), returns every other behaviour
\* unchanged, and never fails, also when the root's registry has no relation
\* under the stored shared-relation name.
C21_BehaviorSuppressedForTwoKindsNeverFails ==
  hookCall.hook = "relationBehavior" =>
    /\ ~BehaviorThrew
    /\ SuppressesExactlyTwoKinds

\* The two kinds are exact wherever the callback returns.
C21_TwoKindsWhereReturned ==
  (hookCall.hook = "relationBehavior" /\ ~BehaviorThrew) => SuppressesExactlyTwoKinds

C21_WitnessConcreteToRoot ==
  /\ hookCall.hook = "relationBehavior"
  /\ ~BehaviorThrew
  /\ ConcreteToRoot(BehaviorEntity)

C21_WitnessRootToSubtype ==
  /\ hookCall.hook = "relationBehavior"
  /\ ~BehaviorThrew
  /\ RootToSubtype(BehaviorEntity)

C21_WitnessUnchanged ==
  /\ hookCall.hook = "relationBehavior"
  /\ hookCall.result = hookCall.incoming
  /\ poly[BehaviorEntity.remote].mode = "relational"

----------------------------------------------------------------------------
\* Properties of withGrafastArgs.

Listening == "handleExplainOperation" \in SeqToSet(eventListeners)

\* The operations the listener was given and whose type is in the explain option.
HeardAndExplained ==
  LET kept == SelectSeq(emitted, LAMBDA e :
                /\ e.heard
                /\ e.operation.type \in SeqToSet(options.explain[1]))
  IN [k \in 1..Len(kept) |-> kept[k].operation]

ExplainOperationsAreHeardOnes ==
  args.rootValue.extensions # Undefined =>
    args.rootValue.extensions[1] = HeardAndExplained

NothingAttachedWithoutExplain ==
  ~shouldExplain =>
    /\ args.rootValue.extensions = Undefined
    /\ ~args.rootValue.eventEmitter
    /\ ~Listening

\* C22: with a non-empty explain option the registered "explainOperation"
\* listener is eventually removed in every execution, whether grafastPrepare
\* returns a value, a promise that fulfils or rejects, or throws; while
\* registered it appends exactly the emitted operations whose type is in the
\* explain option, in emission order; with an empty or absent explain option
\* no emitter and no explain extension is attached to the root value.
C22_ListenerRemovedInEveryExecution ==
  /\ Listening ~> ~Listening
  /\ []ExplainOperationsAreHeardOnes
  /\ []NothingAttachedWithoutExplain

\* The listener is removed in every execution in which grafastPrepare returns.
C22_ListenerRemovedWhenPrepareReturns ==
  /\ Listening ~> (~Listening \/ prepareResult = "threw")
  /\ []ExplainOperationsAreHeardOnes
  /\ []NothingAttachedWithoutExplain

\* grafastPrepare threw and the listener stays registered for good.
C22_WitnessListenerLeft ==
  /\ pc = "threw"
  /\ prepareResult = "threw"
  /\ Listening
  /\ unlistenJob = "none"

C22_WitnessRemoved ==
  /\ unlistenJob = "ran"
  /\ ~Listening
  /\ prepareResult = "rejected"
  /\ Len(args.rootValue.extensions[1]) = 1
  /\ Len(emitted) = 2

====
